---- MODULE Spec2Model ----
(***************************************************************************)
(* Model of src/src/kmeans_cpp_loop.cpp: Lloyd's k-means loop              *)
(* (kmeans_cpp_loop) and its assignment helper (find_closest_centers).     *)
(*                                                                         *)
(* Real numbers are represented exactly: every coordinate is an integer    *)
(* number of units of 1/Scale, where Scale is a multiple of every possible *)
(* cluster count, so that a mean of observations is again a whole number   *)
(* of units.  Squared distances are in units of 1/Scale^2, and so is tol.  *)
(* IEEE rounding, overflow to infinity and NaN are outside the model.      *)
(* Rows, clusters and observations are numbered from 1; the loop index i   *)
(* is the code's 0-based i.                                                *)
(***************************************************************************)
EXTENDS Integers, Sequences, FiniteSets, TLC

\* ---- bounds of the explored inputs ----
MaxN == 3
MaxK == 2
MaxD == 2
MaxVal == 1
MaxIter == 3

RECURSIVE Fact(_)
Fact(m) == IF m <= 1 THEN 1 ELSE m * Fact(m - 1)

\* one real unit, in model units; divisible by every count in 1..MaxN
Scale == Fact(MaxN)

\* the doubles an input matrix may hold
Coord == {Scale * v : v \in 0..MaxVal}

\* an r x c NumericMatrix over a set of values
Matrix(r, c, S) == [1..r -> [1..c -> S]]

\* the tolerances tried: -1.0, 0.0, the smallest positive value, 1.0
TolSet == {0 - Scale * Scale, 0, 1, Scale * Scale}

VARIABLES X, centers, max_iter, tol,
          new_centers, assignments, old_assignments, i,
          pc, iter,
          run, centers_in, prev_cluster, prev_iter, prev_pc

vars == <<X, centers, max_iter, tol, new_centers, assignments,
          old_assignments, i, pc, iter,
          run, centers_in, prev_cluster, prev_iter, prev_pc>>

n_obs == Len(X)
k == Len(centers)
n_vars == Len(X[1])

\* ---- find_closest_centers ----

\* double min_dist = R_PosInf, encoded as a value no distance takes
R_PosInf == -1

\* the inner loop over l: squared Euclidean distance of row x to row c
RECURSIVE SqDist(_, _, _)
SqDist(x, c, l) ==
  IF l > Len(x) THEN 0
  ELSE (x[l] - c[l]) * (x[l] - c[l]) + SqDist(x, c, l + 1)

\* dist < min_dist
DistLess(dist, min_dist) ==
  IF min_dist = R_PosInf THEN TRUE ELSE dist < min_dist

\* variant: dist <= min_dist
DistLessEq(dist, min_dist) ==
  IF min_dist = R_PosInf THEN TRUE ELSE dist <= min_dist

\* variant: a tie goes to the later center
RECURSIVE BestClusterLast(_, _, _, _, _)
BestClusterLast(x, C, j, min_dist, best_cluster) ==
  IF j > Len(C) THEN best_cluster
  ELSE LET dist == SqDist(x, C[j], 1) IN
       IF DistLessEq(dist, min_dist)
       THEN BestClusterLast(x, C, j + 1, dist, j)
       ELSE BestClusterLast(x, C, j + 1, min_dist, best_cluster)

\* the loop over j for one observation x, from center j on (1-based)
RECURSIVE BestCluster(_, _, _, _, _)
BestCluster(x, C, j, min_dist, best_cluster) ==
  IF j > Len(C) THEN best_cluster
  ELSE LET dist == SqDist(x, C[j], 1) IN
       IF DistLess(dist, min_dist)
       THEN BestCluster(x, C, j + 1, dist, j)
       ELSE BestCluster(x, C, j + 1, min_dist, best_cluster)

\* variant: best_cluster = j, without the + 1
find_closest_centers_zero_based(XX, C) ==
  [o \in 1..Len(XX) |-> BestCluster(XX[o], C, 1, R_PosInf, 0) - 1]

\* assignments[i] = best_cluster for every observation
find_closest_centers(XX, C) ==
  [o \in 1..Len(XX) |-> BestCluster(XX[o], C, 1, R_PosInf, 0)]

\* ---- kmeans_cpp_loop: locals ----

\* IntegerVector(n): zero-initialised
IntegerVector(nn) == [o \in 1..nn |-> 0]

\* variant: old_assignments starting at a valid cluster number
SentinelOnes(nn) == [o \in 1..nn |-> 1]

\* IntegerVector old_assignments(n_obs): the value compared at loop index 0
old_assignments_init(nn) == IntegerVector(nn)

\* NumericMatrix(k, n_vars): zero-initialised
ZeroMatrix(r, c) == [j \in 1..r |-> [l \in 1..c |-> 0]]

\* ---- kmeans_cpp_loop: update step ----

\* variant: no reset, the accumulators keep the previous means
NoFill(nc) == nc

\* new_centers.fill(0.0)
Fill(nc) == [j \in DOMAIN nc |-> [l \in DOMAIN nc[j] |-> 0]]

\* the accumulation loop over observations o..n: sums and counts
RECURSIVE Accumulate(_, _, _, _, _)
Accumulate(XX, A, o, nc, counts) ==
  IF o > Len(XX) THEN [sums |-> nc, counts |-> counts]
  ELSE LET cluster_idx == A[o] IN
       Accumulate(XX, A, o + 1,
         [nc EXCEPT ![cluster_idx] =
             [l \in DOMAIN nc[cluster_idx] |-> nc[cluster_idx][l] + XX[o][l]]],
         [counts EXCEPT ![cluster_idx] = counts[cluster_idx] + 1])

\* IntegerVector counts(k) after the accumulation loop
Counts(XX, A, kk) ==
  Accumulate(XX, A, 1, ZeroMatrix(kk, Len(XX[1])), IntegerVector(kk)).counts

\* the clusters that take the else branch (counts[j] == 0)
EmptyClusters(XX, A, kk) == {j \in 1..kk : Counts(XX, A, kk)[j] = 0}

\* floor(R::runif(0, n_obs)): a row of X, here numbered from 1
RandIdx(nn) == 1..nn

\* variant: the empty cluster gets coordinates that are no row of X
NoReseed(XX, rand_idx) == [l \in DOMAIN XX[rand_idx] |-> 0 - 1]

\* new_centers(j, l) = X(rand_idx, l) for every l
Reseed(XX, rand_idx) == XX[rand_idx]

\* variant: divides by counts[j] + 1
MeanOffByOne(sum, count) == [l \in DOMAIN sum |-> sum[l] \div (count + 1)]

\* new_centers(j, l) /= counts[j] for every l
Mean(sum, count) == [l \in DOMAIN sum |-> sum[l] \div count]

\* the whole update step; draw[j] is the random row of empty cluster j
UpdateStep(XX, A, nc, draw) ==
  LET acc == Accumulate(XX, A, 1, Fill(nc), IntegerVector(Len(nc))) IN
  [j \in DOMAIN nc |->
     IF acc.counts[j] > 0
     THEN Mean(acc.sums[j], acc.counts[j])
     ELSE Reseed(XX, draw[j])]

\* center_change: summed squared movement of all centers
RECURSIVE CenterChange(_, _, _)
CenterChange(nc, C, j) ==
  IF j > Len(C) THEN 0
  ELSE SqDist(nc[j], C[j], 1) + CenterChange(nc, C, j + 1)

\* variant: center_change <= tol
ChangeAtMost(center_change, t) == center_change <= t

\* center_change < tol
ChangeBelow(center_change, t) == center_change < t

\* ---- kmeans_cpp_loop: reported iteration counts ----
\* variant: the stability return reporting i + 1
StabilityIterNext(ii) == ii + 1

\* the stability return: iter = i
StabilityIter(ii) == ii

\* variant: the tolerance return reporting i + 2
ToleranceIterLate(ii) == ii + 2

\* the tolerance return: iter = i + 1
ToleranceIter(ii) == ii + 1

\* the call has returned
Done == pc \in {"stable", "tolerance", "exhausted"}

\* ---- initial state: a call kmeans_cpp_loop(X, centers, max_iter, tol) ----
Init ==
  /\ \E nn \in 1..MaxN, kk \in 1..MaxK, dd \in 1..MaxD :
       /\ X \in Matrix(nn, dd, Coord)
       /\ centers \in Matrix(kk, dd, Coord)
       /\ new_centers = ZeroMatrix(kk, dd)
       /\ assignments = IntegerVector(nn)
       /\ old_assignments = old_assignments_init(nn)
  /\ max_iter \in 0..MaxIter
  /\ tol \in TolSet
  /\ i = 0
  /\ pc = "loop"
  /\ iter = -1
  /\ run = 1
  /\ centers_in = centers
  /\ prev_cluster = <<>>
  /\ prev_iter = -1
  /\ prev_pc = "none"

\* ---- actions ----

\* assignment step, assignments equal the previous ones: return iter = i
AssignStable ==
  /\ pc = "loop"
  /\ i < max_iter
  /\ LET A == find_closest_centers(X, centers) IN
       /\ A = old_assignments
       /\ assignments' = A
  /\ pc' = "stable"
  /\ iter' = StabilityIter(i)
  /\ UNCHANGED <<X, centers, max_iter, tol, new_centers, old_assignments, i,
                 run, centers_in, prev_cluster, prev_iter, prev_pc>>

\* assignment step, assignments changed: remember them, go on to the update
AssignChanged ==
  /\ pc = "loop"
  /\ i < max_iter
  /\ LET A == find_closest_centers(X, centers) IN
       /\ A # old_assignments
       /\ assignments' = A
       /\ old_assignments' = A
  /\ pc' = "update"
  /\ UNCHANGED <<X, centers, max_iter, tol, new_centers, i, iter,
                 run, centers_in, prev_cluster, prev_iter, prev_pc>>

\* update step, centers moved by less than tol: return iter = i + 1
UpdateConverged ==
  /\ pc = "update"
  /\ \E draw \in [EmptyClusters(X, assignments, k) -> RandIdx(n_obs)] :
       LET nc == UpdateStep(X, assignments, new_centers, draw)
           center_change == CenterChange(nc, centers, 1) IN
       /\ ChangeBelow(center_change, tol)
       /\ new_centers' = nc
       /\ centers' = nc
  /\ pc' = "tolerance"
  /\ iter' = ToleranceIter(i)
  /\ UNCHANGED <<X, max_iter, tol, assignments, old_assignments, i,
                 run, centers_in, prev_cluster, prev_iter, prev_pc>>

\* update step, centers moved by tol or more: next loop iteration
UpdateContinue ==
  /\ pc = "update"
  /\ \E draw \in [EmptyClusters(X, assignments, k) -> RandIdx(n_obs)] :
       LET nc == UpdateStep(X, assignments, new_centers, draw)
           center_change == CenterChange(nc, centers, 1) IN
       /\ ~ChangeBelow(center_change, tol)
       /\ new_centers' = nc
       /\ centers' = nc
  /\ i' = i + 1
  /\ pc' = "loop"
  /\ UNCHANGED <<X, max_iter, tol, assignments, old_assignments, iter,
                 run, centers_in, prev_cluster, prev_iter, prev_pc>>

\* the loop condition fails: return iter = max_iter
Exhausted ==
  /\ pc = "loop"
  /\ ~(i < max_iter)
  /\ pc' = "exhausted"
  /\ iter' = max_iter
  /\ UNCHANGED <<X, centers, max_iter, tol, new_centers, assignments,
                 old_assignments, i,
                 run, centers_in, prev_cluster, prev_iter, prev_pc>>

\* a second call kmeans_cpp_loop(X, returned centers, 1, tol)
Rerun ==
  /\ Done
  /\ run = 1
  /\ run' = 2
  /\ centers_in' = centers
  /\ prev_cluster' = assignments
  /\ prev_iter' = iter
  /\ prev_pc' = pc
  /\ max_iter' = 1
  /\ new_centers' = ZeroMatrix(k, n_vars)
  /\ assignments' = IntegerVector(n_obs)
  /\ old_assignments' = old_assignments_init(n_obs)
  /\ i' = 0
  /\ pc' = "loop"
  /\ iter' = -1
  /\ UNCHANGED <<X, centers, tol>>

Next ==
  \/ AssignStable
  \/ AssignChanged
  \/ UpdateConverged
  \/ UpdateContinue
  \/ Exhausted
  \/ Rerun

Spec == Init /\ [][Next]_vars

TypeOK ==
  /\ n_obs \in 1..MaxN
  /\ k \in 1..MaxK
  /\ i \in 0..MaxIter
  /\ pc \in {"loop", "update", "stable", "tolerance", "exhausted"}
  /\ run \in {1, 2}

\* ---- notions the properties are stated in ----

\* squared distance of observation o to center j of C
Dist(C, o, j) == SqDist(X[o], C[j], 1)

\* the least squared distance of observation o to any center of C
NearestDist(C, o) ==
  CHOOSE m \in {Dist(C, o, j) : j \in 1..Len(C)} :
    \A j \in 1..Len(C) : m <= Dist(C, o, j)

\* the clustering objective of C: every observation to its nearest center
RECURSIVE Objective(_, _)
Objective(C, o) ==
  IF o > n_obs THEN 0 ELSE NearestDist(C, o) + Objective(C, o + 1)

\* the observations a cluster vector A puts in cluster j
Members(A, j) == {o \in 1..n_obs : A[o] = j}

\* the sum of coordinate l over a set of observations
RECURSIVE SumCoord(_, _)
SumCoord(S, l) ==
  IF S = {} THEN 0
  ELSE LET o == CHOOSE o \in S : TRUE IN X[o][l] + SumCoord(S \ {o}, l)

\* row c is the exact mean of the observations in S
IsMeanOf(c, S) ==
  \A l \in 1..n_vars : c[l] * Cardinality(S) = SumCoord(S, l)

\* row c has the coordinates of some observation
IsObservation(c) == \E r \in 1..n_obs : c = X[r]

\* C is the update of cluster vector A
IsUpdateOf(C, A) ==
  \A j \in 1..Len(C) :
    IF Members(A, j) # {} THEN IsMeanOf(C[j], Members(A, j))
    ELSE IsObservation(C[j])

\* ---- properties ----

\* C1 (as stated): on every exit, max_iter == 0 included, the returned
\* cluster vector has n entries, each a valid 1-based row index of the
\* returned centers.
C1_ValidIndexOnEveryExit ==
  Done =>
    /\ Len(assignments) = n_obs
    /\ \A o \in 1..n_obs : assignments[o] \in 1..k

\* C1 (amended): on every exit the returned cluster vector has n entries;
\* when max_iter >= 1 each entry is a valid 1-based row index of the
\* returned centers, and when max_iter == 0 every entry is 0.
C1_ValidIndexWhenLoopRan ==
  Done =>
    /\ Len(assignments) = n_obs
    /\ max_iter >= 1 => \A o \in 1..n_obs : assignments[o] \in 1..k
    /\ max_iter = 0 => \A o \in 1..n_obs : assignments[o] = 0

C1_Witness ==
  /\ pc = "exhausted"
  /\ max_iter >= 2
  /\ k >= 2
  /\ \E o \in 1..n_obs : assignments[o] = k

\* C2: whichever exit is taken (stability reporting i, tolerance reporting
\* i + 1, exhaustion reporting max_iter), 0 <= iter <= max_iter.
C2_IterInRange ==
  Done =>
    /\ 0 <= iter
    /\ iter <= max_iter
    /\ pc = "stable" => iter = i
    /\ pc = "tolerance" => iter = i + 1
    /\ pc = "exhausted" => iter = max_iter

C2_Witness ==
  /\ pc = "tolerance"
  /\ run = 1
  /\ iter = max_iter
  /\ max_iter >= 2

\* C3 (as stated): after a run that left through the tolerance exit
\* (center_change < tol), a second run on its centers with max_iter == 1
\* returns the same centers.
C3_IdempotentAfterTolerance ==
  (run = 2 /\ Done /\ prev_pc = "tolerance") => centers = centers_in

\* C3 (amended): after a run that returned, with iter >= 1, centers C* whose
\* assignment of X is the returned cluster vector (so at every stability
\* exit, and at a tolerance exit whose center_change was 0) and in which no
\* cluster is empty, a second run on C* with max_iter == 1 returns C*.
C3_IdempotentAtFixedPoint ==
  ( /\ run = 2
    /\ Done
    /\ prev_iter >= 1
    /\ find_closest_centers(X, centers_in) = prev_cluster
    /\ EmptyClusters(X, prev_cluster, k) = {} )
  => centers = centers_in

C3_Witness ==
  /\ run = 2
  /\ Done
  /\ prev_pc = "tolerance"
  /\ prev_iter >= 2
  /\ k >= 2
  /\ find_closest_centers(X, centers_in) = prev_cluster
  /\ EmptyClusters(X, prev_cluster, k) = {}
  /\ centers = centers_in

\* C4: in an update step that reseeds no empty cluster, the objective (each
\* observation's squared distance to its nearest center, summed) of the
\* centers after the update is at most that of the centers before it.
C4_ObjectiveNonIncreasing ==
  [][ (pc = "update" /\ EmptyClusters(X, assignments, k) = {})
      => Objective(centers', 1) <= Objective(centers, 1) ]_vars

\* a one-iteration run without reseed that strictly lowered the objective
C4_Witness ==
  /\ run = 2
  /\ pc = "exhausted"
  /\ k >= 2
  /\ EmptyClusters(X, assignments, k) = {}
  /\ Objective(centers, 1) < Objective(centers_in, 1)

\* C5: with k == n, pairwise distinct observations, initial center j on
\* observation j and max_iter >= 2, the run reports iter == 1, returns the
\* initial centers, and assigns observation j to cluster j.
C5_CentersOnObservations ==
  ( /\ Done
    /\ max_iter >= 2
    /\ k = n_obs
    /\ centers_in = X
    /\ \A o1, o2 \in 1..n_obs : o1 # o2 => X[o1] # X[o2] )
  => /\ iter = 1
     /\ centers = centers_in
     /\ assignments = [o \in 1..n_obs |-> o]

C5_Witness ==
  /\ pc = "stable"
  /\ max_iter >= 2
  /\ k = n_obs
  /\ k >= 2
  /\ centers_in = X
  /\ \A o1, o2 \in 1..n_obs : o1 # o2 => X[o1] # X[o2]
  /\ iter = 1

\* C6: an update step gives every cluster with count 0 the coordinates of a
\* row of X (row index within range) instead of dividing by the count, and
\* the run goes on to the tolerance test: the next loop iteration or the
\* tolerance exit.
C6_EmptyClusterReseeded ==
  [][ pc = "update"
      => /\ \A j \in EmptyClusters(X, assignments, k) : IsObservation(centers'[j])
         /\ pc' \in {"loop", "tolerance"} ]_vars

\* after an update step that reseeded a cluster
C6_Witness ==
  /\ pc = "loop"
  /\ i >= 1
  /\ assignments = old_assignments
  /\ \E j \in EmptyClusters(X, assignments, k) :
       /\ IsObservation(centers[j])
       /\ centers[j] # centers_in[j]

\* C7: at loop index 0 old_assignments holds no value find_closest_centers
\* can produce, the stability exit is not taken at loop index 0, and no run
\* with max_iter >= 1 returns iter == 0.
C7_SentinelOutOfRange ==
  /\ (pc = "loop" /\ i = 0) => \A o \in 1..n_obs : old_assignments[o] \notin 1..k
  /\ pc = "stable" => i >= 1
  /\ (Done /\ max_iter >= 1) => iter >= 1

\* the first assignment of a single-cluster run: all ones, not the sentinel
C7_Witness ==
  /\ pc = "update"
  /\ i = 0
  /\ k = 1
  /\ \A o \in 1..n_obs : assignments[o] = 1

\* C8: the assignment step gives every observation a center of least
\* squared distance, the lowest-numbered one among those at that distance,
\* and changes neither X nor the centers.
C8_NearestLowestIndex ==
  [][ (pc = "loop" /\ i < max_iter)
      => /\ X' = X
         /\ centers' = centers
         /\ \A o \in 1..n_obs :
              /\ assignments'[o] \in 1..k
              /\ \A j \in 1..k :
                   /\ Dist(centers, o, assignments'[o]) <= Dist(centers, o, j)
                   /\ j < assignments'[o]
                        => Dist(centers, o, assignments'[o]) < Dist(centers, o, j) ]_vars

\* an assignment in which a tie between distinct centers went to the lower
C8_Witness ==
  /\ pc = "update"
  /\ \E o \in 1..n_obs : \E j \in 1..k :
       /\ j > assignments[o]
       /\ centers[j] # centers[assignments[o]]
       /\ Dist(centers, o, j) = Dist(centers, o, assignments[o])

\* C9: a run with tol <= 0 never leaves through the tolerance exit.
C9_NoToleranceExit ==
  tol <= 0 => pc # "tolerance"

\* tol == 0, the first update moved no center, and the run went on to the
\* stability exit
C9_Witness ==
  /\ tol = 0
  /\ run = 1
  /\ pc = "stable"
  /\ iter = 1
  /\ centers = centers_in

\* C10: on every exit reporting iter >= 1 the returned centers are the
\* update of the returned cluster vector: the exact mean of its
\* observations for a cluster that has some, a row of X for one with none.
C10_CentersAreUpdateOfCluster ==
  (Done /\ iter >= 1) => IsUpdateOf(centers, assignments)

C10_Witness ==
  /\ pc = "stable"
  /\ iter >= 2
  /\ k >= 2
  /\ EmptyClusters(X, assignments, k) # {}
  /\ \E j \in 1..k : Cardinality(Members(assignments, j)) >= 2
  /\ IsUpdateOf(centers, assignments)
====
